---- MODULE Spec2Model ----
(***************************************************************************)
(* A model of the AI SQL analytics application: the query service          *)
(* (ask.py, main.py, schemas.py) and the Streamlit dashboard               *)
(* (dashboard.py).                                                         *)
(*                                                                         *)
(* Python text that the code inspects character by character (questions,   *)
(* the model's SQL) is a sequence of one-character strings.  Text that is  *)
(* only produced and then decoded as JSON (the Answer) is a sequence of    *)
(* lexemes.  Python values are records [ty, n, s, items].                  *)
(***************************************************************************)
EXTENDS Integers, Sequences, FiniteSets, TLC

VARIABLES
    \* ---- query service: the last request handled by POST /ask
    svc,
    \* ---- dashboard, st.session_state and widget state (kept across reruns)
    history, prefill, nlq, chart_pref,
    \* ---- dashboard, the script run in progress
    pc, clicked, go, default_q, query,
    \* ---- dashboard, what the run rendered and did
    sidebar, shown, calls, http, df, ctype, x_col, y_col, fig, successes,
    \* ---- infer_chart_type applied to drawn inputs
    chartQ, chartOverride, chartType

svcVars == <<svc>>
sessionVars == <<history, prefill, nlq, chart_pref>>
runVars == <<pc, clicked, go, default_q, query>>
viewVars == <<sidebar, shown, calls, http, df, ctype, x_col, y_col, fig, successes>>
uiVars == <<history, prefill, nlq, chart_pref, pc, clicked, go, default_q, query,
            sidebar, shown, calls, http, df, ctype, x_col, y_col, fig, successes>>
chartVars == <<chartQ, chartOverride, chartType>>
vars == <<svc, history, prefill, nlq, chart_pref, pc, clicked, go, default_q, query,
          sidebar, shown, calls, http, df, ctype, x_col, y_col, fig, successes,
          chartQ, chartOverride, chartType>>

(***************************************************************************)
(* Bounds of the model.                                                    *)
(***************************************************************************)
MaxCells == 4
SessionCells == 1
MaxFrags == 2
MaxHist == 2
HistCap == 11

(***************************************************************************)
(* Python str methods on character sequences.                              *)
(***************************************************************************)
LowerLetters == <<"a","b","c","d","e","f","g","h","i","j","k","l","m",
                  "n","o","p","q","r","s","t","u","v","w","x","y","z">>
UpperLetters == <<"A","B","C","D","E","F","G","H","I","J","K","L","M",
                  "N","O","P","Q","R","S","T","U","V","W","X","Y","Z">>
Whitespace == {" ", "\t", "\n", "\r"}

CharUpper(c) ==
    IF \E i \in 1..Len(LowerLetters) : LowerLetters[i] = c
    THEN UpperLetters[CHOOSE i \in 1..Len(LowerLetters) : LowerLetters[i] = c]
    ELSE c

CharLower(c) ==
    IF \E i \in 1..Len(UpperLetters) : UpperLetters[i] = c
    THEN LowerLetters[CHOOSE i \in 1..Len(UpperLetters) : UpperLetters[i] = c]
    ELSE c

upper(s) == [i \in 1..Len(s) |-> CharUpper(s[i])]

lower(s) == [i \in 1..Len(s) |-> CharLower(s[i])]

strip(s) ==
    LET keep == {i \in 1..Len(s) : s[i] \notin Whitespace}
    IN  IF keep = {} THEN <<>>
        ELSE LET lo == CHOOSE i \in keep : \A j \in keep : i <= j
                 hi == CHOOSE i \in keep : \A j \in keep : j <= i
             IN  SubSeq(s, lo, hi)

startswith(s, p) == Len(s) >= Len(p) /\ SubSeq(s, 1, Len(p)) = p

\* Python's  p in s  for strings
contains(p, s) == \E i \in 0..(Len(s) - Len(p)) : SubSeq(s, i + 1, i + Len(p)) = p

(***************************************************************************)
(* Python values and exceptions.                                           *)
(***************************************************************************)
PyInt(n) == [ty |-> "int", n |-> n, s |-> "", items |-> <<>>]
PyStr(s) == [ty |-> "str", n |-> 0, s |-> s, items |-> <<>>]
PyNone == [ty |-> "NoneType", n |-> 0, s |-> "", items |-> <<>>]
PyBytes(s) == [ty |-> "bytes", n |-> 0, s |-> s, items |-> <<>>]
PyList(items) == [ty |-> "list", n |-> 0, s |-> "", items |-> items]
\* a dict keeps insertion order: a sequence of [key, val] with distinct keys
PyDict(items) == [ty |-> "dict", n |-> 0, s |-> "", items |-> items]

NoExc == [cls |-> "", mro |-> {}, msg |-> ""]
Exc(cls, mro, msg) == [cls |-> cls, mro |-> mro \cup {cls, "Exception"}, msg |-> msg]

DictKeys(d) == [i \in 1..Len(d) |-> d[i].key]

DictSet(d, k, v) ==
    IF \E i \in 1..Len(d) : d[i].key = k
    THEN [i \in 1..Len(d) |-> IF d[i].key = k THEN [key |-> k, val |-> v] ELSE d[i]]
    ELSE Append(d, [key |-> k, val |-> v])

RECURSIVE DictFromPairs(_, _, _)
DictFromPairs(keys, vals, acc) ==
    IF keys = <<>> THEN acc
    ELSE DictFromPairs(Tail(keys), Tail(vals), DictSet(acc, Head(keys), Head(vals)))

(***************************************************************************)
(* json.dumps / json.loads on lexemes.  A lexeme is punctuation, a JSON    *)
(* string, a number, null, layout whitespace, or a run of raw text that    *)
(* is not JSON (the words of a message).                                   *)
(***************************************************************************)
Tok(k, s, n) == [k |-> k, s |-> s, n |-> n]
P(c) == Tok("punct", c, 0)
Ws == Tok("ws", "\n  ", 0)
Text(s) == Tok("text", s, 0)

RECURSIVE Encodable(_)
Encodable(v) ==
    CASE v.ty \in {"int", "str", "NoneType"} -> TRUE
      [] v.ty = "list" -> \A i \in 1..Len(v.items) : Encodable(v.items[i])
      [] v.ty = "dict" -> \A i \in 1..Len(v.items) : Encodable(v.items[i].val)
      [] OTHER -> FALSE

RECURSIVE Encode(_)
RECURSIVE EncodeItems(_, _)
RECURSIVE EncodeMembers(_, _)
Encode(v) ==
    CASE v.ty = "int" -> <<Tok("number", "", v.n)>>
      [] v.ty = "str" -> <<Tok("string", v.s, 0)>>
      [] v.ty = "NoneType" -> <<Tok("null", "null", 0)>>
      [] v.ty = "list" ->
            IF v.items = <<>> THEN <<P("["), P("]")>>
            ELSE <<P("["), Ws>> \o EncodeItems(v.items, 1) \o <<Ws, P("]")>>
      [] v.ty = "dict" ->
            IF v.items = <<>> THEN <<P("{"), P("}")>>
            ELSE <<P("{"), Ws>> \o EncodeMembers(v.items, 1) \o <<Ws, P("}")>>

EncodeItems(items, i) ==
    IF i > Len(items) THEN <<>>
    ELSE (IF i > 1 THEN <<P(","), Ws>> ELSE <<>>)
         \o Encode(items[i]) \o EncodeItems(items, i + 1)

EncodeMembers(items, i) ==
    IF i > Len(items) THEN <<>>
    ELSE (IF i > 1 THEN <<P(","), Ws>> ELSE <<>>)
         \o <<Tok("string", items[i].key, 0), P(":")>>
         \o Encode(items[i].val) \o EncodeMembers(items, i + 1)

\* json.dumps(obj, indent=2): the text, or TypeError for a value json cannot encode
json_dumps(v) ==
    IF Encodable(v)
    THEN [ok |-> TRUE, text |-> Encode(v), exc |-> NoExc]
    ELSE [ok |-> FALSE, text |-> <<>>,
          exc |-> Exc("TypeError", {}, "Object of type bytes is not JSON serializable")]

ParseFail == [ok |-> FALSE, val |-> PyNone, next |-> 0]
ParseOk(v, next) == [ok |-> TRUE, val |-> v, next |-> next]

RECURSIVE ParseValue(_, _)
RECURSIVE ParseItems(_, _, _)
RECURSIVE ParseMembers(_, _, _)
ParseValue(t, i) ==
    IF i > Len(t) THEN ParseFail
    ELSE CASE t[i].k = "number" -> ParseOk(PyInt(t[i].n), i + 1)
           [] t[i].k = "string" -> ParseOk(PyStr(t[i].s), i + 1)
           [] t[i].k = "null" -> ParseOk(PyNone, i + 1)
           [] t[i] = P("[") ->
                IF i + 1 <= Len(t) /\ t[i + 1] = P("]")
                THEN ParseOk(PyList(<<>>), i + 2)
                ELSE ParseItems(t, i + 1, <<>>)
           [] t[i] = P("{") ->
                IF i + 1 <= Len(t) /\ t[i + 1] = P("}")
                THEN ParseOk(PyDict(<<>>), i + 2)
                ELSE ParseMembers(t, i + 1, <<>>)
           [] OTHER -> ParseFail

ParseItems(t, i, acc) ==
    LET r == ParseValue(t, i)
    IN  IF ~r.ok \/ r.next > Len(t) THEN ParseFail
        ELSE IF t[r.next] = P(",") THEN ParseItems(t, r.next + 1, Append(acc, r.val))
        ELSE IF t[r.next] = P("]") THEN ParseOk(PyList(Append(acc, r.val)), r.next + 1)
        ELSE ParseFail

ParseMembers(t, i, acc) ==
    IF i + 1 > Len(t) \/ t[i].k # "string" \/ t[i + 1] # P(":") THEN ParseFail
    ELSE LET r == ParseValue(t, i + 2)
         IN  IF ~r.ok \/ r.next > Len(t) THEN ParseFail
             ELSE IF t[r.next] = P(",")
                  THEN ParseMembers(t, r.next + 1, DictSet(acc, t[i].s, r.val))
             ELSE IF t[r.next] = P("}")
                  THEN ParseOk(PyDict(DictSet(acc, t[i].s, r.val)), r.next + 1)
             ELSE ParseFail

\* json.loads(text): the value, or a failure (JSONDecodeError)
json_loads(text) ==
    LET t == SelectSeq(text, LAMBDA x : x.k # "ws")
        r == ParseValue(t, 1)
    IN  IF r.ok /\ r.next = Len(t) + 1
        THEN [ok |-> TRUE, val |-> r.val]
        ELSE [ok |-> FALSE, val |-> PyNone]

(***************************************************************************)
(* The query service: ask.py and main.py.                                  *)
(***************************************************************************)
SELECT == <<"S","E","L","E","C","T">>
\* the leading cross-mark emoji of the source is written (x)
RejectionMessage == "(x) Only SELECT queries are allowed."
NoResultsMessage == "No results found."
DatabaseErrorPrefix == "Database error: "
ErrorPrefix == "Error: "

\* AskResponse(answer=...)
AskResponse(answer, connects, executes) ==
    [answer |-> answer, raised |-> FALSE, exc |-> NoExc,
     connects |-> connects, executes |-> executes]

\* a faulty variant of ExceptHandlers: the except Exception clause is missing
OnlySqlAlchemyHandler(e, connects, executes) ==
    IF "SQLAlchemyError" \in e.mro
    THEN AskResponse(<<Text(DatabaseErrorPrefix), Text(e.msg)>>, connects, executes)
    ELSE [answer |-> <<>>, raised |-> TRUE, exc |-> e,
          connects |-> connects, executes |-> executes]

ExceptHandlers(e, connects, executes) ==
    IF "SQLAlchemyError" \in e.mro
    THEN AskResponse(<<Text(DatabaseErrorPrefix), Text(e.msg)>>, connects, executes)
    ELSE IF "Exception" \in e.mro
    THEN AskResponse(<<Text(ErrorPrefix), Text(e.msg)>>, connects, executes)
    ELSE [answer |-> <<>>, raised |-> TRUE, exc |-> e,
          connects |-> connects, executes |-> executes]

\* the safety check of step 2
\* a faulty variant of Rejected: the gate lets everything through
NoGate(sql_query) == FALSE

Rejected(sql_query) == ~startswith(upper(sql_query), SELECT)

\* step 4, formatted = [dict(row._mapping) for row in rows]
Formatted(keys, rows) ==
    PyList([i \in 1..Len(rows) |-> PyDict(DictFromPairs(keys, rows[i], <<>>))])

\* m is what the model call does, d what the database does if it is reached
ask_database(question, m, d) ==
    IF m.kind = "raise" THEN ExceptHandlers(m.exc, 0, 0)
    ELSE IF m.kind = "none"
    THEN ExceptHandlers(
            Exc("AttributeError", {}, "'NoneType' object has no attribute 'strip'"), 0, 0)
    ELSE LET sql_query == strip(m.content)
         IN  IF Rejected(sql_query)
             THEN AskResponse(<<Text(RejectionMessage)>>, 0, 0)
             ELSE IF d.kind = "connect_raise" THEN ExceptHandlers(d.exc, 1, 0)
             ELSE IF d.kind = "execute_raise" THEN ExceptHandlers(d.exc, 1, 1)
             ELSE IF d.rows = <<>>
                  THEN AskResponse(<<Text(NoResultsMessage)>>, 1, 1)
                  ELSE LET j == json_dumps(Formatted(d.keys, d.rows))
                       IN  IF j.ok THEN AskResponse(j.text, 1, 1)
                           ELSE ExceptHandlers(j.exc, 1, 1)

\* POST /ask: the Answer as a 200 response, the framework's 500 if the handler raised
ask(request, m, d) ==
    LET r == ask_database(request.query, m, d)
    IN  IF r.raised
        THEN [status |-> 500, body_ok |-> TRUE,
              payload |-> <<[key |-> "detail", val |-> <<Text("Internal Server Error")>>]>>,
              handled |-> r]
        ELSE [status |-> 200, body_ok |-> TRUE,
              payload |-> <<[key |-> "answer", val |-> r.answer]>>,
              handled |-> r]

(***************************************************************************)
(* The dashboard: dashboard.py.                                            *)
(***************************************************************************)
examples ==
    << <<"T","o","p"," ","5"," ","a","r","t","i","s","t","s"," ","b","y"," ",
          "n","u","m","b","e","r"," ","o","f"," ","a","l","b","u","m","s"," ",
          "(","b","a","r"," ","c","h","a","r","t",")">>,
       <<"T","o","t","a","l"," ","i","n","v","o","i","c","e"," ","a","m","o",
          "u","n","t"," ","b","y"," ","c","o","u","n","t","r","y"," ","(","p",
          "i","e"," ","c","h","a","r","t",")">>,
       <<"M","o","n","t","h","l","y"," ","s","a","l","e","s"," ","t","r","e",
          "n","d"," ","f","o","r"," ","2","0","1","0","-","2","0","1","3"," ",
          "(","l","i","n","e"," ","c","h","a","r","t",")">>,
       <<"T","r","a","c","k","s"," ","p","e","r"," ","g","e","n","r","e"," ",
          "(","b","a","r"," ","c","h","a","r","t",")">>,
       <<"T","o","p"," ","c","u","s","t","o","m","e","r","s"," ","b","y"," ",
          "t","o","t","a","l"," ","s","p","e","n","d"," ","(","b","a","r"," ",
          "c","h","a","r","t",")">> >>

\* the fallback of st.session_state.pop("prefill", ...)
DefaultQuestion ==
    <<"T","o","p"," ","5"," ","a","r","t","i","s","t","s"," ","b","y"," ",
      "n","u","m","b","e","r"," ","o","f"," ","a","l","b","u","m","s"," ",
      "(","b","a","r"," ","c","h","a","r","t",")">>

Auto == <<"A","u","t","o">>
ChartOptions ==
    << Auto, <<"B","a","r">>, <<"L","i","n","e">>, <<"P","i","e">>,
       <<"A","r","e","a">>, <<"T","a","b","l","e">> >>

bar == <<"b","a","r">>
line == <<"l","i","n","e">>
pie == <<"p","i","e">>
area == <<"a","r","e","a">>
table == <<"t","a","b","l","e">>

\* a faulty variant of infer_chart_type: pie is looked for before line
PieBeforeLine(q, override) ==
    IF override # <<>> /\ override # Auto THEN lower(override)
    ELSE LET ql == lower(q)
         IN  IF contains(bar, ql) THEN bar
             ELSE IF contains(pie, ql) THEN pie
             ELSE IF contains(line, ql) THEN line
             ELSE IF contains(area, ql) THEN area
             ELSE table

infer_chart_type(q, override) ==
    IF override # <<>> /\ override # Auto THEN lower(override)
    ELSE LET ql == lower(q)
         IN  IF contains(bar, ql) THEN bar
             ELSE IF contains(line, ql) THEN line
             ELSE IF contains(pie, ql) THEN pie
             ELSE IF contains(area, ql) THEN area
             ELSE table

\* ---- sequences the way Python slices them
Min(a, b) == IF a < b THEN a ELSE b
Max(a, b) == IF a > b THEN a ELSE b
LastN(seq, n) == SubSeq(seq, Max(1, Len(seq) - n + 1), Len(seq))
FirstN(seq, n) == SubSeq(seq, 1, Min(n, Len(seq)))
reversed(seq) == [i \in 1..Len(seq) |-> seq[Len(seq) - i + 1]]

\* an optional text: None, or a str
NoneText == [some |-> FALSE, text |-> <<>>]
SomeText(t) == [some |-> TRUE, text |-> t]
\* Python's  x or "--"
OrDashes(x) == IF x.some /\ x.text # <<>> THEN x.text ELSE <<Text("--")>>

HistoryShown == 10
LabelChars == 50

\* one expander per history entry, lines 43-47
\* a faulty variant of RenderHistory: reversed() is missing
OldestFirst(h) ==
    IF h = <<>> THEN <<>>
    ELSE LET recent == LastN(h, HistoryShown)
         IN  [i \in 1..Len(recent) |->
                [n |-> i, label |-> FirstN(recent[i].q, LabelChars),
                 code |-> OrDashes(recent[i].sql), rows |-> recent[i].rows]]

RenderHistory(h) ==
    IF h = <<>> THEN <<>>
    ELSE LET recent == reversed(LastN(h, HistoryShown))
         IN  [i \in 1..Len(recent) |->
                [n |-> i, label |-> FirstN(recent[i].q, LabelChars),
                 code |-> OrDashes(recent[i].sql), rows |-> recent[i].rows]]

\* ---- pandas
PyNaN == [ty |-> "float", n |-> 0, s |-> "nan", items |-> <<>>]

RECURSIVE UnionKeys(_, _, _)
UnionKeys(items, i, acc) ==
    IF i > Len(items) THEN acc
    ELSE LET ks == DictKeys(items[i].items)
             fresh == SelectSeq(ks, LAMBDA k : \A j \in 1..Len(acc) : acc[j] # k)
         IN  UnionKeys(items, i + 1, acc \o fresh)

DictGet(d, k, default) ==
    IF \E i \in 1..Len(d) : d[i].key = k
    THEN d[CHOOSE i \in 1..Len(d) : d[i].key = k].val
    ELSE default

NoFrame == [ok |-> TRUE, columns |-> <<>>, rows |-> <<>>]

\* pd.DataFrame(data) for a list of records; anything else raises ValueError
DataFrame(data) ==
    IF data.ty = "list" /\ \A i \in 1..Len(data.items) : data.items[i].ty = "dict"
    THEN LET cols == UnionKeys(data.items, 1, <<>>)
         IN  [ok |-> TRUE, columns |-> cols,
              rows |-> [i \in 1..Len(data.items) |->
                          [j \in 1..Len(cols) |->
                              DictGet(data.items[i].items, cols[j], PyNaN)]]]
    ELSE [ok |-> FALSE, columns |-> <<>>, rows |-> <<>>]

\* df.empty
empty(f) == Len(f.columns) = 0 \/ Len(f.rows) = 0

\* pd.api.types.is_numeric_dtype(df[c]) for the j-th column: numbers, possibly
\* with missing values; a column of strings, or of nothing but None, is object
is_numeric_dtype(f, j) ==
    /\ \A i \in 1..Len(f.rows) : f.rows[i][j].ty \in {"int", "float", "NoneType"}
    /\ \E i \in 1..Len(f.rows) : f.rows[i][j].ty \in {"int", "float"}

NoneCol == [some |-> FALSE, name |-> ""]
SomeCol(c) == [some |-> TRUE, name |-> c]

\* lines 124-129
\* a faulty variant of Axes: x is always the first column
AxesFirstColumn(f) ==
    IF Len(f.columns) >= 2
    THEN LET idx == 1..Len(f.columns)
             num == {j \in idx : is_numeric_dtype(f, j)}
             first(S) == CHOOSE j \in S : \A k \in S : j <= k
         IN  [x |-> SomeCol(f.columns[1]),
              y |-> IF num # {} THEN SomeCol(f.columns[first(num)])
                    ELSE IF Len(f.columns) > 1 THEN SomeCol(f.columns[2])
                    ELSE NoneCol]
    ELSE [x |-> NoneCol, y |-> NoneCol]

Axes(f) ==
    IF Len(f.columns) >= 2
    THEN LET idx == 1..Len(f.columns)
             cat == {j \in idx : ~is_numeric_dtype(f, j)}
             num == {j \in idx : is_numeric_dtype(f, j)}
             first(S) == CHOOSE j \in S : \A k \in S : j <= k
         IN  [x |-> SomeCol(f.columns[IF cat # {} THEN first(cat) ELSE 1]),
              y |-> IF num # {} THEN SomeCol(f.columns[first(num)])
                    ELSE IF Len(f.columns) > 1 THEN SomeCol(f.columns[2])
                    ELSE NoneCol]
    ELSE [x |-> NoneCol, y |-> NoneCol]

\* lines 131-140: the figure, "none" for fig = None
Figure(ct, y) ==
    IF y.some /\ ct \in {bar, line, pie, area} THEN ct ELSE <<"n","o","n","e">>

\* ---- what the action block renders: st.error, st.warning, st.code, ...
El(el, text, arg, n) == [el |-> el, text |-> text, arg |-> arg, n |-> n, body |-> <<>>]
Code(body) == [el |-> "code", text |-> "", arg |-> "", n |-> 0, body |-> body]

\* the warning-sign and check-mark emoji of the source are written (!) and (ok),
\* its backquotes as quotes
ServerErrorText == "Server error: "
BackendDownText == "(!) Backend not running on port 8000. Please start FastAPI with 'uvicorn main:app --reload'."
TimeoutText == "(!) Request timed out. Try a simpler question or check the server."
UnexpectedText == "Unexpected error: "
NoResultsWarning == "No results found."
SuccessText == "(ok) Query completed successfully!"

\* the exception classes requests.post raises, with their base classes
ConnectionErrorExc ==
    Exc("ConnectionError", {"RequestException", "OSError"}, "Connection refused")
ConnectTimeoutExc ==
    Exc("ConnectTimeout", {"ConnectionError", "Timeout", "RequestException", "OSError"},
        "Connection to backend timed out. (connect timeout=60)")
ReadTimeoutExc ==
    Exc("ReadTimeout", {"Timeout", "RequestException", "OSError"},
        "Read timed out. (read timeout=60)")
TooManyRedirectsExc ==
    Exc("TooManyRedirects", {"RequestException", "OSError"}, "Exceeded 30 redirects.")
JSONDecodeErrorExc ==
    Exc("JSONDecodeError", {"InvalidJSONError", "RequestException", "ValueError"},
        "Expecting value: line 1 column 1 (char 0)")

\* the except clauses of the action block, in order: lines 162-167
ExceptClauses(e) ==
    IF "ConnectionError" \in e.mro THEN El("error", BackendDownText, "", 0)
    ELSE IF "Timeout" \in e.mro THEN El("error", TimeoutText, "", 0)
    ELSE El("error", UnexpectedText, e.msg, 0)

NoFigure == <<"n","o","n","e">>

Outcome(els, f, save, sql, ct, ax, fg) ==
    [shown |-> els, df |-> f, save |-> save, sql |-> sql,
     ctype |-> ct, x_col |-> ax.x, y_col |-> ax.y, fig |-> fg]

NoAxes == [x |-> NoneCol, y |-> NoneCol]

Failed(els, e) ==
    Outcome(Append(els, ExceptClauses(e)), NoFrame, FALSE, NoneText, <<>>, NoAxes, NoFigure)

\* the parse of lines 111-114
\* a faulty variant of ParseRows: the except is missing
ParseStrict(raw) == json_loads(raw).val

ParseRows(raw) ==
    LET parsed == json_loads(raw)
    IN  IF parsed.ok THEN parsed.val ELSE PyList(<<>>)

\* lines 96-167 for the response (or exception) o of requests.post
RunQuery(q, pref, o) ==
    IF o.kind = "raise" THEN Failed(<<>>, o.exc)
    ELSE IF o.status # 200
    THEN Outcome(<<El("error", ServerErrorText, "", o.status)>>,
                 NoFrame, FALSE, NoneText, <<>>, NoAxes, NoFigure)
    ELSE IF ~o.body_ok THEN Failed(<<>>, JSONDecodeErrorExc)
    ELSE LET raw == DictGet(o.payload, "answer", <<P("["), P("]")>>)
             sql == IF \E i \in 1..Len(o.payload) : o.payload[i].key = "sql"
                    THEN SomeText(DictGet(o.payload, "sql", <<>>))
                    ELSE NoneText
             top == <<El("expander", "Generated SQL", "", 0), Code(OrDashes(sql))>>
             f == DataFrame(ParseRows(raw))
         IN  IF ~f.ok
             THEN Failed(top, Exc("ValueError", {}, "DataFrame constructor not properly called!"))
             ELSE IF empty(f)
             THEN Outcome(Append(top, El("warning", NoResultsWarning, "", 0)),
                          f, FALSE, sql, <<>>, NoAxes, NoFigure)
             ELSE LET ct == infer_chart_type(q, pref)
                      ax == Axes(f)
                      fg == Figure(ct, ax.y)
                  IN  Outcome(
                        top \o <<El("subheader", "Visualization", "", 0)>>
                            \o (IF fg # NoFigure
                                THEN <<El("plotly_chart", "", "", 0)>> ELSE <<>>)
                            \o <<El("subheader", "Data Table", "", 0),
                                 El("dataframe", "", "", Len(f.rows)),
                                 El("download_button", "Download CSV", "", 0),
                                 El("success", SuccessText, "", 0)>>,
                        f, TRUE, sql, ct, ax, fg)

\* lines 156-158
\* a faulty variant of SaveToHistory: the history is overwritten
SaveLatestOnly(h, q, sql, n) == <<[q |-> q, sql |-> sql, rows |-> n]>>

SaveToHistory(h, q, sql, n) == Append(h, [q |-> q, sql |-> sql, rows |-> n])

(***************************************************************************)
(* What the outside world can do: the language model, the database, the    *)
(* network between dashboard and service, and the user.                    *)
(***************************************************************************)
NoModel == [kind |-> "unused", content |-> <<>>, exc |-> NoExc]
NoDb == [kind |-> "unused", keys |-> <<>>, rows |-> <<>>, exc |-> NoExc]

ModelText(t) == [kind |-> "text", content |-> t, exc |-> NoExc]
ModelNone == [kind |-> "none", content |-> <<>>, exc |-> NoExc]
ModelRaises ==
    [kind |-> "raise", content |-> <<>>,
     exc |-> Exc("APIConnectionError", {"APIError", "OpenAIError"}, "Connection error.")]

SelectOne == <<"S","E","L","E","C","T"," ","1">>
SelectPadded == <<" "," ","s","e","l","e","c","t"," ","1","\n">>
SelectThenDrop == <<"S","e","l","e","c","t"," ","1",";","D","R","O","P"," ","T","A","B","L","E"," ","t">>
DropTable == <<"D","R","O","P"," ","T","A","B","L","E"," ","t">>
CommentThenSelect == <<"-","-","x","\n","S","E","L","E","C","T"," ","1">>
Selec == <<"s","e","l","e","c">>
Blank == <<" ", "\n">>

ModelTexts ==
    {SelectOne, SelectPadded, SelectThenDrop, DropTable, CommentThenSelect, Selec,
     Blank, <<>>}

ModelOutcomes == {ModelText(t) : t \in ModelTexts} \cup {ModelNone, ModelRaises}

ColumnNames == <<"Name", "Total", "Country", "Year", "Month", "Day">>
\* what SQLite hands back for INTEGER, TEXT, NULL and BLOB
Values == {PyInt(1), PyStr("a"), PyNone, PyBytes("x")}

\* every result of at most maxCells cells: k columns (distinct names), n rows
ResultSets(values, maxCells) ==
    UNION {
        { [kind |-> "rows", keys |-> SubSeq(ColumnNames, 1, k), rows |-> rs, exc |-> NoExc]
            : rs \in UNION { [1..n -> [1..k -> values]] : n \in 0..(maxCells \div k) } }
        : k \in 1..maxCells }

OperationalError(msg) ==
    Exc("OperationalError", {"DBAPIError", "StatementError", "SQLAlchemyError"}, msg)
ConnectRaises ==
    [kind |-> "connect_raise", keys |-> <<>>, rows |-> <<>>,
     exc |-> OperationalError("unable to open database file")]
ExecuteRaises ==
    [kind |-> "execute_raise", keys |-> <<>>, rows |-> <<>>,
     exc |-> OperationalError("no such table: t")]

DbOutcomes == ResultSets(Values, MaxCells) \cup {ConnectRaises, ExecuteRaises}

\* a network scenario for one POST: the service answers, requests.post raises,
\* something in between answers with an error status, or the body is not JSON
Serve(m, d) == [kind |-> "served", m |-> m, d |-> d, exc |-> NoExc, status |-> 0]
Raise(e) == [kind |-> "raise", m |-> NoModel, d |-> NoDb, exc |-> e, status |-> 0]
Gateway(status) ==
    [kind |-> "gateway", m |-> NoModel, d |-> NoDb, exc |-> NoExc, status |-> status]
Garbled == [kind |-> "garbled", m |-> NoModel, d |-> NoDb, exc |-> NoExc, status |-> 200]

TransportFailures ==
    {Raise(ConnectionErrorExc), Raise(ConnectTimeoutExc), Raise(ReadTimeoutExc),
     Raise(TooManyRedirectsExc), Gateway(502), Garbled}

NoHttp == [kind |-> "none", status |-> 0, body_ok |-> FALSE, payload |-> <<>>, exc |-> NoExc]

\* resp = requests.post(API_URL, json={"query": query}, timeout=60)
Post(q, sc) ==
    CASE sc.kind = "served" ->
            LET r == ask([query |-> q], sc.m, sc.d)
            IN  [kind |-> "response", status |-> r.status, body_ok |-> r.body_ok,
                 payload |-> r.payload, exc |-> NoExc]
      [] sc.kind = "raise" ->
            [kind |-> "raise", status |-> 0, body_ok |-> FALSE, payload |-> <<>>,
             exc |-> sc.exc]
      [] sc.kind = "gateway" ->
            [kind |-> "response", status |-> sc.status, body_ok |-> FALSE,
             payload |-> <<>>, exc |-> NoExc]
      [] sc.kind = "garbled" ->
            [kind |-> "response", status |-> sc.status, body_ok |-> FALSE,
             payload |-> <<>>, exc |-> NoExc]

NoSvc ==
    [question |-> <<>>, m |-> NoModel, d |-> NoDb, status |-> 0,
     resp |-> [answer |-> <<>>, raised |-> FALSE, exc |-> NoExc,
               connects |-> 0, executes |-> 0]]

\* the service's record of one request to POST /ask
Served(q, m, d) ==
    LET r == ask([query |-> q], m, d)
    IN  [question |-> q, m |-> m, d |-> d, status |-> r.status, resp |-> r.handled]

PieText == <<"P","i","e","s">>
Spaces == <<" ", " ">>

OneRow ==
    [kind |-> "rows", keys |-> <<"Name">>, rows |-> << <<PyStr("a")>> >>, exc |-> NoExc]

\* the inputs of a session: what the user types, selects and clicks, what a
\* POST can meet, and the number of history entries the model follows
SessionEnv ==
    [texts |-> {PieText, Spaces},
     prefs |-> {ChartOptions[1], ChartOptions[3]},
     clicks |-> {1, 2},
     scenarios |-> TransportFailures
        \cup {Serve(m, d) : m \in {ModelText(SelectOne), ModelText(DropTable), ModelRaises},
                            d \in ResultSets(Values, SessionCells) \cup {ExecuteRaises}},
     cap |-> MaxHist]

HistoryEnv ==
    [texts |-> {PieText},
     prefs |-> {Auto},
     clicks |-> {1},
     scenarios |-> {Raise(ConnectionErrorExc), Serve(ModelText(SelectOne), OneRow)},
     cap |-> HistCap]

ResultEnv ==
    [texts |-> {PieText},
     prefs |-> {Auto, ChartOptions[6]},
     clicks |-> {3},
     scenarios |-> {Garbled}
        \cup {Serve(m, d) : m \in {ModelText(DropTable), ModelNone, ModelRaises},
                            d \in {OneRow}}
        \cup {Serve(ModelText(SelectPadded), d) : d \in DbOutcomes},
     cap |-> 1]

SvcQuestions == {DefaultQuestion, <<>>}

Fragments ==
    { <<"b","a">>, <<"r">>, <<"B","A","R">>, <<"o","n">>, <<"L","i","n","e">>,
      <<"p","i","e"," ","c","h","a","r","t">>, <<"P","I","E">>, <<"a","r","e","a">>,
      <<" ">>, <<"t","a","b","l","e">> }

RECURSIVE Flatten(_)
Flatten(fs) == IF fs = <<>> THEN <<>> ELSE Head(fs) \o Flatten(Tail(fs))

ChartQuestions ==
    { Flatten(fs) : fs \in UNION { [1..n -> Fragments] : n \in 0..MaxFrags } }

Unset == <<"?">>
NoPrefill == [present |-> FALSE, value |-> <<>>]

(***************************************************************************)
(* The state machine.                                                      *)
(***************************************************************************)
Init ==
    /\ svc = NoSvc
    /\ history = <<>>
    /\ prefill = NoPrefill
    /\ nlq = DefaultQuestion
    /\ chart_pref = Auto
    /\ pc = "idle"
    /\ clicked = 0
    /\ go = FALSE
    /\ default_q = <<>>
    /\ query = <<>>
    /\ sidebar = <<>>
    /\ shown = <<>>
    /\ calls = 0
    /\ http = NoHttp
    /\ df = NoFrame
    /\ ctype = <<>>
    /\ x_col = NoneCol
    /\ y_col = NoneCol
    /\ fig = NoFigure
    /\ successes = 0
    /\ chartQ = <<>>
    /\ chartOverride = Auto
    /\ chartType = Unset

\* ---- the service handles the request it was sent
AskRoute ==
    /\ svc.status = 0
    /\ svc' = Served(svc.question, svc.m, svc.d)
    /\ UNCHANGED <<uiVars, chartVars>>

\* ---- a user event starts a script run: lines 37-72, the sidebar with the
\* history and the example buttons, then the chart selector.  ex is the
\* example button that is True in this run (0: none), run the Run Query button
StartRun(text, pref, ex, run) ==
    /\ pc = "idle"
    /\ nlq' = text
    /\ chart_pref' = pref
    /\ sidebar' = RenderHistory(history)
    /\ clicked' = ex
    /\ prefill' = IF ex # 0 THEN [present |-> TRUE, value |-> examples[ex]] ELSE prefill
    /\ go' = run
    /\ pc' = "input"
    /\ default_q' = <<>>
    /\ query' = <<>>
    /\ shown' = <<>>
    /\ calls' = 0
    /\ http' = NoHttp
    /\ df' = NoFrame
    /\ ctype' = <<>>
    /\ x_col' = NoneCol
    /\ y_col' = NoneCol
    /\ fig' = NoFigure
    /\ svc' = NoSvc
    /\ UNCHANGED <<history, successes, chartVars>>

Rerun == StartRun(nlq, chart_pref, 0, FALSE)

EditQuestion(E) == \E t \in E.texts : StartRun(t, chart_pref, 0, FALSE)

SelectChart(E) == \E p \in E.prefs : StartRun(nlq, p, 0, FALSE)

ClickExample(E) == \E i \in E.clicks : StartRun(nlq, chart_pref, i, FALSE)

ClickRun == StartRun(nlq, chart_pref, 0, TRUE)

\* ---- lines 75-78: the prefill is popped, the text input is rendered.  The
\* input returns the text the widget keeps, or its value= default when
\* Streamlit takes the changed default for a new widget
InputSection ==
    /\ pc = "input"
    /\ default_q' = IF prefill.present THEN prefill.value ELSE DefaultQuestion
    /\ prefill' = NoPrefill
    /\ \E v \in {nlq, default_q'} : query' = v /\ nlq' = v
    /\ pc' = "action"
    /\ UNCHANGED <<history, chart_pref, clicked, go, viewVars, svc, chartVars>>

\* ---- line 92: the guard of the action block
\* a faulty variant of Guard: the button and strip() are ignored
AlwaysGuard(run, q) == q # <<>>

Guard(run, q) == run /\ strip(q) # <<>>

ActionSkipped ==
    /\ pc = "action"
    /\ ~Guard(go, query)
    /\ pc' = "idle"
    /\ UNCHANGED <<sessionVars, clicked, go, default_q, query, viewVars, svc, chartVars>>

\* ---- lines 92-171: one POST and what is rendered from it
ActionBlock(E) ==
    /\ pc = "action"
    /\ Guard(go, query)
    /\ \E sc \in E.scenarios :
         \E o \in {Post(query, sc)} : \E r \in {RunQuery(query, chart_pref, o)} :
             /\ r.save => Len(history) < E.cap
             /\ calls' = calls + 1
             /\ http' = o
             /\ svc' = IF sc.kind = "served" THEN Served(query, sc.m, sc.d) ELSE svc
             /\ shown' = r.shown
             /\ df' = r.df
             /\ ctype' = r.ctype
             /\ x_col' = r.x_col
             /\ y_col' = r.y_col
             /\ fig' = r.fig
             /\ history' = IF r.save
                           THEN SaveToHistory(history, query, r.sql, Len(r.df.rows))
                           ELSE history
             /\ successes' = successes +
                    (IF \E i \in 1..Len(r.shown) : r.shown[i].el = "success" THEN 1 ELSE 0)
    /\ pc' = "idle"
    /\ UNCHANGED <<prefill, nlq, chart_pref, clicked, go, default_q, query, sidebar,
                   chartVars>>

\* ---- a request on its way to the service: the question, and what the
\* model and the database will do when called
InitSvc ==
    /\ \E q \in SvcQuestions, m \in ModelOutcomes, d \in DbOutcomes :
          svc = [NoSvc EXCEPT !.question = q, !.m = m, !.d = d]
    /\ history = <<>>
    /\ prefill = NoPrefill
    /\ nlq = DefaultQuestion
    /\ chart_pref = Auto
    /\ pc = "idle"
    /\ clicked = 0
    /\ go = FALSE
    /\ default_q = <<>>
    /\ query = <<>>
    /\ sidebar = <<>>
    /\ shown = <<>>
    /\ calls = 0
    /\ http = NoHttp
    /\ df = NoFrame
    /\ ctype = <<>>
    /\ x_col = NoneCol
    /\ y_col = NoneCol
    /\ fig = NoFigure
    /\ successes = 0
    /\ chartQ = <<>>
    /\ chartOverride = Auto
    /\ chartType = Unset

\* ---- infer_chart_type applied once to the drawn inputs
InitChart ==
    /\ svc = NoSvc
    /\ history = <<>>
    /\ prefill = NoPrefill
    /\ nlq = DefaultQuestion
    /\ chart_pref = Auto
    /\ pc = "idle"
    /\ clicked = 0
    /\ go = FALSE
    /\ default_q = <<>>
    /\ query = <<>>
    /\ sidebar = <<>>
    /\ shown = <<>>
    /\ calls = 0
    /\ http = NoHttp
    /\ df = NoFrame
    /\ ctype = <<>>
    /\ x_col = NoneCol
    /\ y_col = NoneCol
    /\ fig = NoFigure
    /\ successes = 0
    /\ chartQ \in ChartQuestions
    /\ chartOverride \in {ChartOptions[i] : i \in 1..Len(ChartOptions)}
    /\ chartType = Unset

InferChart ==
    /\ chartType = Unset
    /\ chartType' = infer_chart_type(chartQ, chartOverride)
    /\ UNCHANGED <<svc, uiVars, chartQ, chartOverride>>

NextUI(E) ==
    \/ Rerun
    \/ EditQuestion(E)
    \/ SelectChart(E)
    \/ ClickExample(E)
    \/ ClickRun
    \/ InputSection
    \/ ActionSkipped
    \/ ActionBlock(E)

Next == NextUI(SessionEnv)
NextHistory == NextUI(HistoryEnv)
NextResult == NextUI(ResultEnv)

Spec == Init /\ [][Next]_vars
SpecHistory == Init /\ [][NextHistory]_vars
SpecResult == Init /\ [][NextResult]_vars
SpecSvc == InitSvc /\ [][AskRoute]_vars
SpecChart == InitChart /\ [][InferChart]_vars

(***************************************************************************)
(* Vocabulary of the properties, stated on the text itself.                *)
(***************************************************************************)
\* t, after its leading whitespace, begins with SELECT in any letter case
BeginsWithSelect(t) ==
    \E k \in 0..Len(t) :
        /\ \A i \in 1..k : t[i] \in Whitespace
        /\ Len(t) >= k + Len(SELECT)
        /\ \A j \in 1..Len(SELECT) : CharUpper(t[k + j]) = SELECT[j]

\* kw occurs in q, letter case ignored
Occurs(kw, q) ==
    \E i \in 0..(Len(q) - Len(kw)) : \A j \in 1..Len(kw) : CharLower(q[i + j]) = kw[j]

NonBlank(t) == \E i \in 1..Len(t) : t[i] \notin Whitespace

Keywords == <<bar, line, pie, area>>
PieChartText == <<"p","i","e"," ","c","h","a","r","t">>
LowercaseOf(pref) ==
    CASE pref = ChartOptions[2] -> bar
      [] pref = ChartOptions[3] -> line
      [] pref = ChartOptions[4] -> pie
      [] pref = ChartOptions[5] -> area
      [] pref = ChartOptions[6] -> table

\* the chart type the priority rule gives for q under Auto
ByPriority(q) ==
    IF \E k \in 1..Len(Keywords) : Occurs(Keywords[k], q)
    THEN Keywords[CHOOSE k \in 1..Len(Keywords) :
                    /\ Occurs(Keywords[k], q)
                    /\ \A j \in 1..(k - 1) : ~Occurs(Keywords[j], q)]
    ELSE table

Has(els, kind) == \E i \in 1..Len(els) : els[i].el = kind
Says(els, kind, text) == \E i \in 1..Len(els) : els[i].el = kind /\ els[i].text = text

\* the service has answered this run's request, and its model call gave SQL
\* that passed the gate
Answered == svc.status # 0
Executed == Answered /\ svc.m.kind = "text" /\ BeginsWithSelect(svc.m.content)
HasBlob(d) ==
    \E i \in 1..Len(d.rows) : \E j \in 1..Len(d.rows[i]) : d.rows[i][j].ty = "bytes"

KeySet(d) == {d[i].key : i \in 1..Len(d)}
Range(seq) == {seq[i] : i \in 1..Len(seq)}

\* a run that rendered a table, and the axes the description gives for it
Rendered == pc = "idle" /\ Has(shown, "dataframe")
Cols == 1..Len(df.columns)
FirstIn(S) == CHOOSE j \in S : \A k \in S : j <= k
NonNumeric == {j \in Cols : ~is_numeric_dtype(df, j)}
Numeric == {j \in Cols : is_numeric_dtype(df, j)}
ClaimedX == SomeCol(df.columns[IF NonNumeric # {} THEN FirstIn(NonNumeric) ELSE 1])
ClaimedY ==
    IF Numeric # {} THEN SomeCol(df.columns[FirstIn(Numeric)])
    ELSE IF Len(df.columns) >= 2 THEN SomeCol(df.columns[2])
    ELSE NoneCol

IsTimeout(e) == e.cls \in {"ConnectTimeout", "ReadTimeout"}

\* the first lexeme of each Answer that is a message
StatusTexts ==
    {Text(RejectionMessage), Text(NoResultsMessage), Text(DatabaseErrorPrefix),
     Text(ErrorPrefix)}

(***************************************************************************)
(* C1: whenever the model's output, stripped and uppercased, does not      *)
(* start with SELECT, the Answer is exactly the fixed rejection message    *)
(* and the request opens no database connection and executes no statement. *)
(***************************************************************************)
C1_GateRejects ==
    (Answered /\ svc.m.kind = "text" /\ ~BeginsWithSelect(svc.m.content))
        => /\ svc.resp.answer = <<Text(RejectionMessage)>>
           /\ svc.resp.connects = 0
           /\ svc.resp.executes = 0
           /\ ~svc.resp.raised

C1_Witness ==
    /\ Answered
    /\ svc.m.content = DropTable
    /\ svc.d.kind = "rows" /\ svc.d.rows # <<>>
    /\ svc.resp.answer = <<Text(RejectionMessage)>>

(***************************************************************************)
(* C2: whatever the model call and the database call do, ask_database      *)
(* returns an Answer and never raises, so the route answers 200; a         *)
(* database-layer failure gives an Answer starting "Database error: ",     *)
(* any other failure one starting "Error: ".                               *)
(***************************************************************************)
C2_NeverRaises ==
    Answered =>
        /\ ~svc.resp.raised
        /\ svc.status = 200
        /\ svc.resp.answer # <<>>
        /\ (Executed /\ svc.d.kind \in {"connect_raise", "execute_raise"})
              => svc.resp.answer = <<Text(DatabaseErrorPrefix), Text(svc.d.exc.msg)>>
        /\ svc.m.kind = "raise"
              => svc.resp.answer = <<Text(ErrorPrefix), Text(svc.m.exc.msg)>>
        /\ (svc.m.kind = "none" \/ (Executed /\ svc.d.kind = "rows" /\ HasBlob(svc.d)))
              => /\ Len(svc.resp.answer) = 2
                 /\ svc.resp.answer[1] = Text(ErrorPrefix)

C2_Witness ==
    /\ Answered
    /\ Executed
    /\ svc.d.kind = "execute_raise"
    /\ svc.resp.answer[1] = Text(DatabaseErrorPrefix)
    /\ svc.status = 200

(***************************************************************************)
(* C3: for every result of N > 0 rows with column set C, the Answer is     *)
(* JSON that decodes to a list of N objects each with exactly the keys C,  *)
(* the dashboard's table has N rows and the columns C, and the history     *)
(* entry appended for the run records rows = N.                            *)
(***************************************************************************)
C3_RoundTrip ==
    (pc = "idle" /\ Executed /\ svc.d.kind = "rows" /\ svc.d.rows # <<>>)
        => LET decoded == json_loads(svc.resp.answer)
               N == Len(svc.d.rows)
               C == Range(svc.d.keys)
           IN  /\ decoded.ok
               /\ decoded.val.ty = "list"
               /\ Len(decoded.val.items) = N
               /\ \A i \in 1..N : /\ decoded.val.items[i].ty = "dict"
                                  /\ KeySet(decoded.val.items[i].items) = C
               /\ Len(df.rows) = N
               /\ Range(df.columns) = C
               /\ history # <<>>
               /\ history[Len(history)].rows = N

(***************************************************************************)
(* C4 as claimed: a preference other than Auto is the result, lowercased;  *)
(* under Auto the result is the first of bar, line, pie, area occurring in *)
(* the question, else table; and any question containing "pie chart"       *)
(* selects pie under Auto and line under Line.                             *)
(***************************************************************************)
C4_Original ==
    chartType # Unset =>
        /\ chartOverride # Auto => chartType = LowercaseOf(chartOverride)
        /\ chartOverride = Auto => chartType = ByPriority(chartQ)
        /\ (Occurs(PieChartText, chartQ) /\ chartOverride = Auto) => chartType = pie
        /\ (Occurs(PieChartText, chartQ) /\ chartOverride = ChartOptions[3])
              => chartType = line

(***************************************************************************)
(* C4 amended: as claimed, except that a question containing "pie chart"   *)
(* selects pie under Auto only when neither "bar" nor "line" occurs in it. *)
(***************************************************************************)
C4_Amended ==
    chartType # Unset =>
        /\ chartOverride # Auto => chartType = LowercaseOf(chartOverride)
        /\ chartOverride = Auto => chartType = ByPriority(chartQ)
        /\ (/\ Occurs(PieChartText, chartQ)
            /\ ~Occurs(bar, chartQ)
            /\ ~Occurs(line, chartQ)
            /\ chartOverride = Auto) => chartType = pie
        /\ (Occurs(PieChartText, chartQ) /\ chartOverride = ChartOptions[3])
              => chartType = line

C4_Witness ==
    /\ chartOverride = Auto
    /\ Occurs(PieChartText, chartQ)
    /\ Occurs(area, chartQ)
    /\ chartType = pie

(***************************************************************************)
(* C5 as claimed: for every non-empty response, whatever its number of     *)
(* columns, x is the first non-numeric column, or the first column when    *)
(* all are numeric; y is the first numeric column, or else the second      *)
(* column if there is one; the chart is skipped only when no y column is   *)
(* resolvable.                                                             *)
(***************************************************************************)
C5_Original ==
    Rendered =>
        /\ x_col = ClaimedX
        /\ y_col = ClaimedY
        /\ ~Has(shown, "plotly_chart") => ~ClaimedY.some

(***************************************************************************)
(* C5 amended: for every non-empty response of at least two columns, x is  *)
(* the first non-numeric column, or the first column when all are numeric, *)
(* and y is the first numeric column, or else the second column; for a     *)
(* response of one column neither axis is resolved; the chart is skipped   *)
(* exactly when no y column is resolved or the chart type is none of bar,  *)
(* line, pie, area.                                                        *)
(***************************************************************************)
C5_Amended ==
    Rendered =>
        /\ Len(df.columns) >= 2 => (x_col = ClaimedX /\ y_col = ClaimedY /\ y_col.some)
        /\ Len(df.columns) < 2 => (x_col = NoneCol /\ y_col = NoneCol)
        /\ ~Has(shown, "plotly_chart") <=> (~y_col.some \/ ctype \notin Range(Keywords))

C5_Witness ==
    /\ Rendered
    /\ Len(df.columns) >= 2
    /\ NonNumeric = {}
    /\ x_col = SomeCol(df.columns[1])
    /\ y_col = SomeCol(df.columns[1])
    /\ Has(shown, "plotly_chart")

(***************************************************************************)
(* C6: a step changes the history only when it is a Run that got a 200     *)
(* response with a non-empty row list, and then it appends exactly one     *)
(* entry {question, sql, row count}; every such Run appends; no step       *)
(* modifies or removes an existing entry.                                  *)
(***************************************************************************)
C6_HistoryOnlyByResult ==
    [][ LET result == /\ pc = "action" /\ pc' = "idle"
                      /\ http'.kind = "response" /\ http'.status = 200
                      /\ ~empty(df')
        IN  /\ result => /\ Len(history') = Len(history) + 1
                         /\ SubSeq(history', 1, Len(history)) = history
                         /\ history'[Len(history')] =
                               [q |-> query, sql |-> NoneText, rows |-> Len(df'.rows)]
            /\ ~result => history' = history ]_vars

C6_Witness ==
    /\ pc = "idle"
    /\ Len(history) = 1
    /\ http.kind = "raise"
    /\ Says(shown, "error", BackendDownText)

(***************************************************************************)
(* C7: a non-200 response shows the server-error message, a connection     *)
(* failure the "backend not running" message, and every timeout of the     *)
(* call, while connecting or while waiting for the response, the timeout   *)
(* message and not the connection-failure message; the run ends in Idle.   *)
(***************************************************************************)
C7_TransportMessages ==
    (pc = "idle" /\ calls = 1) =>
        /\ (http.kind = "response" /\ http.status # 200)
              => shown = <<El("error", ServerErrorText, "", http.status)>>
        /\ (http.kind = "raise" /\ IsTimeout(http.exc))
              => shown = <<El("error", TimeoutText, "", 0)>>
        /\ (http.kind = "raise" /\ http.exc.cls = "ConnectionError")
              => shown = <<El("error", BackendDownText, "", 0)>>

(***************************************************************************)
(* C8: the run triggered by an example click issues no network call; it    *)
(* stores the example as the prefill, which the next rendering of the      *)
(* input removes and uses once; a call is issued only in a run where Run   *)
(* Query was pressed and the question is non-blank, and then exactly one.  *)
(***************************************************************************)
C8_ExampleDoesNotRun ==
    /\ clicked # 0 => calls = 0
    /\ calls <= 1
    /\ calls = 1 => (go /\ NonBlank(query))
    /\ (pc = "idle" /\ go /\ NonBlank(query)) => calls = 1
    /\ prefill.present => (pc = "input" /\ clicked # 0 /\ prefill.value = examples[clicked])
    /\ (pc = "input" /\ clicked # 0) => prefill.present
    /\ (pc \in {"action", "idle"} /\ clicked # 0) => default_q = examples[clicked]
    /\ (pc = "action" /\ clicked = 0) => default_q = DefaultQuestion

C8_Witness ==
    /\ pc = "idle"
    /\ clicked = 2
    /\ default_q = examples[2]
    /\ query = examples[2]
    /\ ~prefill.present
    /\ calls = 0

(***************************************************************************)
(* C9: a rendering of the sidebar with n stored entries shows exactly the  *)
(* last min(n, 10) of them, most recent first; the stored history is never *)
(* truncated: its length is the number of successful non-empty runs.       *)
(***************************************************************************)
C9_SidebarShowsLastTen ==
    /\ Len(history) = successes
    /\ pc \in {"input", "action"} =>
          /\ Len(sidebar) = Min(Len(history), 10)
          /\ \A i \in 1..Len(sidebar) :
                LET h == history[Len(history) - i + 1]
                IN  /\ sidebar[i].n = i
                    /\ sidebar[i].label = h.q
                    /\ sidebar[i].rows = h.rows

C9_Witness ==
    /\ pc = "input"
    /\ Len(history) = 11
    /\ Len(sidebar) = 10
    /\ history[1].q # history[2].q
    /\ sidebar[10].label = history[2].q

(***************************************************************************)
(* C10: a rejection, "No results found.", a "Database error: ..." and an   *)
(* "Error: ..." Answer each arrive as a 200 response whose answer fails    *)
(* JSON decoding, and each ends in the same "No results found." warning    *)
(* with no chart, no table and no history entry; the service's rejection   *)
(* or error text is not displayed.                                         *)
(***************************************************************************)
C10_StatusAnswersLookEmpty ==
    [][ (pc = "action" /\ pc' = "idle" /\ svc'.status # 0)
          => \/ /\ svc'.resp.answer[1] \notin StatusTexts
                /\ svc'.d.kind = "rows" /\ svc'.d.rows # <<>>
                /\ json_loads(svc'.resp.answer).ok
             \/ /\ svc'.resp.answer[1] \in StatusTexts
                /\ http'.kind = "response" /\ http'.status = 200
                /\ ~json_loads(svc'.resp.answer).ok
                /\ shown' = <<El("expander", "Generated SQL", "", 0), Code(<<Text("--")>>),
                              El("warning", NoResultsWarning, "", 0)>>
                /\ history' = history
                /\ successes' = successes ]_vars

C10_Witness ==
    /\ pc = "idle"
    /\ svc.status = 200
    /\ svc.resp.answer[1] = Text(DatabaseErrorPrefix)
    /\ Says(shown, "warning", NoResultsWarning)
    /\ ~Has(shown, "error")

====
